---- MODULE Spec2Model ----
(***************************************************************************)
(* Sincronia core (appUtils): the build-and-push pipeline, the manifest    *)
(* writer and the missing-file detector, modelled as state machines.       *)
(* Each promise continuation of the source is one action; the values a     *)
(* collaborator returns (transformer, remote store, filesystem) are the    *)
(* nondeterministic inputs of the actions.                                 *)
(***************************************************************************)
EXTENDS Integers, Sequences, FiniteSets, TLC

\* ------------------------------------------------------------------ bounds
\* Largest number of records in one input tree of pushFiles.
MaxRecords == 2

\* Largest number of records in one manifest.
MaxManRecords == 3

\* The attempt budget handed to retryOnErr (PUSH_RETRY_LIMIT of ./constants);
\* the properties below are stated for any budget.
PUSH_RETRY_LIMIT == 3

\* ------------------------------------------------------------ small helpers
Range(s) == {s[i] : i \in 1..Len(s)}

RECURSIVE SumSeq(_)
SumSeq(s) == IF s = <<>> THEN 0 ELSE Head(s) + SumSeq(Tail(s))

RECURSIVE Flat(_)
\* Array.prototype.flat() on an array of arrays.
Flat(ss) == IF ss = <<>> THEN <<>> ELSE Head(ss) \o Flat(Tail(ss))

\* =========================================================================
\* Part 1.  pushFiles / buildAndPush / buildRec
\* =========================================================================

\* Table names an input tree may use, in key-enumeration order.
TableNames == <<"incident", "sys_script">>

\* Outcomes of the content transformer for one field.
FieldOutcomes == {"ok", "err"}

\* Error messages of a rejected updateRecord call ("" : an error without message).
ErrMessages == {"", "ECONNRESET"}

\* Responses of a resolved updateRecord call.
Responses == {"accepted", "refused"}

\* The k-th record of the record pool the input trees are drawn from: records
\* with and without a display name, with one and with two fields, and two
\* records sharing a display name.
PoolRec(k) ==
  [ sys_id |-> "id" \o ToString(k),
    name   |-> IF k % 2 = 0 THEN "" ELSE "alpha",
    fields |-> IF k % 3 = 0 THEN <<"script", "css">> ELSE <<"script">> ]

\* The tree with sizes[j] records under table j; a table with no record is
\* not a key of the tree (groupAppFiles creates a table with its first record).
TreeOf(sizes) ==
  LET present == SelectSeq([j \in 1..Len(TableNames) |-> j], LAMBDA j : sizes[j] > 0)
  IN  [ p \in 1..Len(present) |->
          [ table |-> TableNames[present[p]],
            recs  |-> [ i \in 1..sizes[present[p]] |-> PoolRec(i + present[p] - 1) ] ] ]

Trees ==
  { TreeOf(sizes) : sizes \in
      { s \in [1..Len(TableNames) -> 0..MaxRecords] :
          SumSeq(s) <= MaxRecords } }

VARIABLES
  appFileTree,   \* the input tree: sequence of [table, recs]
  tickSupplied,  \* getProgTick returned an observer (log level "info")
  pc,            \* "idle" | "running" | "done" | "failed"  (the pushFiles promise)
  build,         \* record -> state of its buildRec promise
  phase,         \* record -> position of its push callback
  tries,         \* record -> allowedRetries of the current retryOnErr frame
  calls,         \* record -> number of client.updateRecord calls issued
  notes,         \* record -> number of onRetry notifications
  thrown,        \* record -> message of the error retryOnErr gave up with
  pushPromises,  \* record -> <<>> or <<settled state>> of its push promise
  ticked,        \* record -> number of tick() calls made by its push callback
  outOfOrder,    \* some record settled before an earlier-enumerated one
  ret            \* the value pushFiles resolved with

pushVars == << appFileTree, tickSupplied, pc, build, phase, tries, calls,
               notes, thrown, pushPromises, ticked, outOfOrder, ret >>

VARIABLES
  manifest,      \* the SN.AppManifest at hand: sequence of [table, recs]
  fs,            \* the local source tree: path -> "dir" | "local" | "synced"
  forceWrite,    \* the forceWrite argument of processManifest
  pcM,           \* "idle" | "running" | "persisting" | "done" | "failed"
  dirState,      \* record -> state of its createDirRecursively promise
  writeState,    \* file -> state of its fileWrite promise
  content,       \* file -> the in-memory File still has its content
  manifestFile   \* <<>> or <<the text written to the manifest path>>

manVars == << manifest, fs, forceWrite, pcM, dirState, writeState, content,
              manifestFile >>

VARIABLES
  pcF,           \* "idle" | "running" | "done"  (the findMissingFiles promise)
  probed,        \* the paths an existence probe was issued for
  tableCheck,    \* table -> "none" | "pending" | "present" | "absent"
  recCheck,      \* record -> the same, for the record's directory
  fileCheck,     \* file -> the same, for the file's path
  missing        \* the SN.MissingFileTableMap being filled

missVars == << pcF, probed, tableCheck, recCheck, fileCheck, missing >>

VARIABLES
  recToBuild,    \* the record handed to buildRec: [fields]
  fieldBuild,    \* field index -> "idle" | "pending" | "ok" | "err"
  pcB,           \* "idle" | "waiting" | "fulfilled" | "rejected"
  built          \* the state of the promise buildRec returned

buildVars == << recToBuild, fieldBuild, pcB, built >>

VARIABLES
  fileCtxs,      \* the Sinc.FileContext[] handed to groupAppFiles
  reordered,     \* the same contexts in another order
  grouped,       \* <<>> or <<groupAppFiles(fileCtxs)>>
  regrouped      \* <<>> or <<groupAppFiles(reordered)>>

groupVars == << fileCtxs, reordered, grouped, regrouped >>

VARIABLES
  manScope,      \* <<>> (no manifest yet) or <<the scope of the manifest>>
  swap,          \* the swap argument of checkScope
  sessionScope,  \* remote: the scope the user's session is in
  scopePref,     \* remote: the user's scope preference records, [id, value]
  pcS,           \* position of checkScope
  scopeRead,     \* local scopeObj.scope
  scopeId,       \* local scopeId of swapScope
  prefRead,      \* local curAppUserPrefId of swapServerScope
  swappedScope,  \* local swappedScopeObj.scope
  scopeCalls,    \* the remote calls checkScope has issued, in order
  scopeCheck     \* <<>> or <<the Sinc.ScopeCheckResult returned>>

scopeVars == << manScope, swap, sessionScope, scopePref, pcS, scopeRead, scopeId,
                prefRead, swappedScope, scopeCalls, scopeCheck >>

VARIABLES
  updateSetName, \* the argument of the createAndAssignUpdateSet call at hand
  namesLeft,     \* the names of the calls still to come
  updateSets,    \* remote: the update sets created, in order
  updateSetPref, \* remote: the user's update set preference records
  pcU,           \* position of createAndAssignUpdateSet
  newSetId,      \* local updateSetSysId
  usPrefRead,    \* local curUpdateSetUserPrefId
  usCalls,       \* the remote calls of the call at hand, in order
  usResult       \* <<>> or <<the {name, id} returned>>

updateSetVars == << updateSetName, namesLeft, updateSets, updateSetPref, pcU,
                    newSetId, usPrefRead, usCalls, usResult >>

vars == << pushVars, manVars, missVars, buildVars, groupVars, scopeVars,
           updateSetVars >>

\* What the actions of one part leave alone: the variables of the other parts.
OutsidePush == << manVars, missVars, buildVars, groupVars, scopeVars,
                 updateSetVars >>
OutsideManifest == << pushVars, missVars, buildVars, groupVars, scopeVars,
                     updateSetVars >>
OutsideMissing == << pushVars, manVars, buildVars, groupVars, scopeVars,
                    updateSetVars >>
OutsideBuild == << pushVars, manVars, missVars, groupVars, scopeVars,
                  updateSetVars >>
OutsideGroup == << pushVars, manVars, missVars, buildVars, scopeVars,
                  updateSetVars >>
OutsideScope == << pushVars, manVars, missVars, buildVars, groupVars,
                  updateSetVars >>
OutsideUpdateSet == << pushVars, manVars, missVars, buildVars, groupVars,
                      scopeVars >>

\* The values the variables of a part keep while another part runs.
PushIdle ==
  /\ appFileTree = <<>> /\ tickSupplied = FALSE /\ pc = "off"
  /\ build = <<>> /\ phase = <<>> /\ tries = <<>> /\ calls = <<>>
  /\ notes = <<>> /\ thrown = <<>> /\ pushPromises = <<>> /\ ticked = <<>>
  /\ outOfOrder = FALSE /\ ret = <<>>

ManIdle ==
  /\ manifest = <<>> /\ fs = <<>> /\ forceWrite = FALSE /\ pcM = "off"
  /\ dirState = <<>> /\ writeState = <<>> /\ content = <<>>
  /\ manifestFile = <<>>

MissIdle ==
  /\ pcF = "off" /\ probed = {} /\ tableCheck = <<>> /\ recCheck = <<>>
  /\ fileCheck = <<>> /\ missing = <<>>

BuildIdle ==
  /\ recToBuild = <<>> /\ fieldBuild = <<>> /\ pcB = "off" /\ built = <<>>

GroupIdle ==
  /\ fileCtxs = <<>> /\ reordered = <<>> /\ grouped = <<>> /\ regrouped = <<>>

ScopeIdle ==
  /\ manScope = <<>> /\ swap = FALSE /\ sessionScope = "" /\ scopePref = {}
  /\ pcS = "off" /\ scopeRead = "" /\ scopeId = "" /\ prefRead = ""
  /\ swappedScope = "" /\ scopeCalls = <<>> /\ scopeCheck = <<>>

UpdateSetIdle ==
  /\ updateSetName = "" /\ namesLeft = <<>> /\ updateSets = <<>>
  /\ updateSetPref = {} /\ pcU = "off" /\ newSetId = "" /\ usPrefRead = ""
  /\ usCalls = <<>> /\ usResult = <<>>

\* No other part is running.
OthersIdle == BuildIdle /\ GroupIdle /\ ScopeIdle /\ UpdateSetIdle

\* Records of a tree, as <<table index, record index>>.
RecsOf(tree) ==
  UNION { { <<t, i>> : i \in 1..Len(tree[t].recs) } : t \in 1..Len(tree) }
Recs == RecsOf(appFileTree)
RecAt(r) == appFileTree[r[1]].recs[r[2]]
TableOf(r) == appFileTree[r[1]].table

\* Table-then-record enumeration order of the tree.
Enumeration ==
  Flat([ t \in 1..Len(appFileTree) |->
           [ i \in 1..Len(appFileTree[t].recs) |-> <<t, i>> ] ])

countRecsInTree(tree) ==
  SumSeq([ t \in 1..Len(tree) |-> Len(tree[t].recs) ])

summarizeRecord(table, recDescriptor) == table \o " > " \o recDescriptor

\* recMap[recFields[0]].name || recIds[index]
RecDesc(r) == IF RecAt(r).name # "" THEN RecAt(r).name ELSE RecAt(r).sys_id
RecSummary(r) == summarizeRecord(TableOf(r), RecDesc(r))

RECURSIVE JoinLabelled(_, _)
\* One line per error, labelled with its index in the list of errors.
JoinLabelled(errs, k) ==
  IF errs = <<>> THEN ""
  ELSE "\n" \o ToString(k) \o ": " \o Head(errs) \o JoinLabelled(Tail(errs), k + 1)

aggregateErrorMessages(errs, header) == header \o JoinLabelled(errs, 0)

\* What PluginManager.getFinalFileContents resolves with, and the reason it
\* rejects with, for the context of a field.
BuiltContent(field) == "built " \o field
BuildReason(field) == "bad " \o field

\* buildRec: outs[f] is the transformer's outcome for the f-th field.
buildRec(rec, outs) ==
  LET failed == SelectSeq([f \in 1..Len(rec.fields) |-> f], LAMBDA f : outs[f] = "err")
      reasons == [ k \in 1..Len(failed) |-> BuildReason(rec.fields[failed[k]]) ]
  IN  IF failed # <<>>
      THEN [ status |-> "rejected", value |-> <<>>,
             reason |-> aggregateErrorMessages(reasons, "Failed to build!") ]
      ELSE [ status |-> "fulfilled",
             value  |-> [ n \in Range(rec.fields) |-> BuiltContent(n) ],
             reason |-> "" ]

Pending == [ status |-> "pending", value |-> <<>>, reason |-> "" ]

\* ---- the values a push callback settles with

PushResult(ok, msg, r) ==
  [ success |-> ok, message |-> msg, of |-> <<TableOf(r), RecAt(r).sys_id>> ]

Fulfilled(v) == [ status |-> "fulfilled", value |-> v ]
Rejected(v) == [ status |-> "rejected", value |-> v ]

\* Variant: the test of the build outcome is lost.
BuildNeverRejected(buildRes) == FALSE

\* if (buildRes.status === "rejected")
BuildRejected(buildRes) == buildRes.status = "rejected"

\* The early return of a record whose build was rejected.
BuildFailedResult(r) ==
  Fulfilled(PushResult(FALSE, RecSummary(r) \o " : " \o build[r].reason, r))

\* processPushResponse: the remote's own verdict becomes the record's result.
processPushResponse(res, r) ==
  IF res = "accepted"
  THEN PushResult(TRUE, RecSummary(r) \o " pushed successfully!", r)
  ELSE PushResult(FALSE, "Failed to push " \o RecSummary(r), r)

\* Variant: the catch block lets the error escape the callback.
CatchRethrows(r, e) ==
  Rejected(PushResult(FALSE, e, r))

\* Variant: the catch block ignores the message of the error.
CatchDropsMessage(r, e) ==
  Fulfilled(PushResult(FALSE, RecSummary(r) \o " : " \o "Too many retries", r))

\* catch (e): const errMsg = e.message || "Too many retries"
CatchResult(r, e) ==
  Fulfilled(PushResult(FALSE,
      RecSummary(r) \o " : " \o (IF e # "" THEN e ELSE "Too many retries"), r))

\* finally { if (tick) tick(); }
TickFinally(r) ==
  [ ticked EXCEPT ![r] = IF tickSupplied THEN @ + 1 ELSE @ ]

\* retryOnErr gives up when the budget left after this failure is spent.
RetriesSpent(allowedRetries) == allowedRetries - 1 <= 0

\* Variant: settled values are collected in the order they arrive.
StoreInArrivalOrder(promises, r, v) ==
  LET free == { k \in 1..Len(Enumeration) : promises[Enumeration[k]] = <<>> }
      k0 == CHOOSE k \in free : \A j \in free : k <= j
  IN  [ promises EXCEPT ![Enumeration[k0]] = <<v>> ]

\* Promise.all keeps each settled value at the index of its promise.
StoreSettled(promises, r, v) == [ promises EXCEPT ![r] = <<v>> ]

Settled(r) == pushPromises[r] # <<>>

\* r settles while a record enumerated before it has not settled yet.
Overtakes(r) ==
  \E q \in Recs :
    /\ ~Settled(q)
    /\ \/ q[1] < r[1]
       \/ q[1] = r[1] /\ q[2] < r[2]

\* tablePushResults.flat(): the tables' result arrays in table order.
FlatResults(promises) ==
  Flat([ t \in 1..Len(appFileTree) |->
           [ i \in 1..Len(appFileTree[t].recs) |-> promises[<<t, i>>][1].value ] ])

\* Promise.all over every push promise: settled once all have fulfilled, or
\* as soon as one has rejected.
AnyRejected == \E r \in Recs : Settled(r) /\ pushPromises[r][1].status = "rejected"
PromiseAllSettled == AnyRejected \/ \A r \in Recs : Settled(r)

\* ---- initial state: pushFiles has not been called yet

PushInit ==
  /\ appFileTree \in Trees
  /\ tickSupplied \in BOOLEAN
  /\ pc = "idle"
  /\ build = [ r \in RecsOf(appFileTree) |-> Pending ]
  /\ phase = [ r \in RecsOf(appFileTree) |-> "none" ]
  /\ tries = [ r \in RecsOf(appFileTree) |-> 0 ]
  /\ calls = [ r \in RecsOf(appFileTree) |-> 0 ]
  /\ notes = [ r \in RecsOf(appFileTree) |-> 0 ]
  /\ thrown = [ r \in RecsOf(appFileTree) |-> "" ]
  /\ pushPromises = [ r \in RecsOf(appFileTree) |-> <<>> ]
  /\ ticked = [ r \in RecsOf(appFileTree) |-> 0 ]
  /\ outOfOrder = FALSE
  /\ ret = <<>>

\* ---- actions

\* pushFiles up to its await: every buildAndPush runs up to its await, which
\* starts the buildRec of every record of every table.
PushFilesStart ==
  /\ pc = "idle"
  /\ pc' = "running"
  /\ build' = [ r \in Recs |-> [ Pending EXCEPT !.status = "building" ] ]
  /\ UNCHANGED << appFileTree, tickSupplied, phase, tries, calls, notes,
                  thrown, pushPromises, ticked, outOfOrder, ret >>
  /\ UNCHANGED OutsidePush

\* The transformer has settled every field of record r: buildRec settles.
BuildSettle(r) ==
  /\ pc = "running"
  /\ build[r].status = "building"
  /\ \E outs \in [ 1..Len(RecAt(r).fields) -> FieldOutcomes ] :
       build' = [ build EXCEPT ![r] = buildRec(RecAt(r), outs) ]
  /\ UNCHANGED << appFileTree, tickSupplied, pc, phase, tries, calls, notes,
                  thrown, pushPromises, ticked, outOfOrder, ret >>
  /\ UNCHANGED OutsidePush

\* allSettled(buildPromises) of table t resolves: the push callback of every
\* record of the table runs up to its first await.
TableRecs(t) == { r \in Recs : r[1] = t }

RECURSIVE StoreSkipped(_, _)
\* The callbacks run in index order; those of rejected builds return at once.
StoreSkipped(promises, rs) ==
  IF rs = <<>> THEN promises
  ELSE StoreSkipped(
         IF BuildRejected(build[Head(rs)])
         THEN StoreSettled(promises, Head(rs), BuildFailedResult(Head(rs)))
         ELSE promises,
         Tail(rs))

\* Variant: one settle-all wait over the builds of every table.
BuildsOfEveryTableSettled(t) ==
  \A r \in Recs : build[r].status \in {"fulfilled", "rejected"}

\* await allSettled(buildPromises): the builds of the records of table t.
BuildsSettled(t) ==
  \A r \in TableRecs(t) : build[r].status \in {"fulfilled", "rejected"}

TablePushStart(t) ==
  LET skip == { r \in TableRecs(t) : BuildRejected(build[r]) }
      push == TableRecs(t) \ skip
      inOrder == [ i \in 1..Len(appFileTree[t].recs) |-> <<t, i>> ]
  IN
  /\ pc = "running"
  /\ BuildsSettled(t)
  /\ \A r \in TableRecs(t) : phase[r] = "none"
  /\ phase' = [ r \in Recs |->
                  IF r \in skip THEN "skipped"
                  ELSE IF r \in push THEN "calling" ELSE phase[r] ]
  /\ tries' = [ r \in Recs |-> IF r \in push THEN PUSH_RETRY_LIMIT ELSE tries[r] ]
  /\ calls' = [ r \in Recs |-> IF r \in push THEN 1 ELSE calls[r] ]
  /\ pushPromises' = StoreSkipped(pushPromises, inOrder)
  /\ outOfOrder' = (outOfOrder \/ \E r \in skip : \E q \in Recs \ skip :
                       /\ ~Settled(q)
                       /\ (q[1] < r[1] \/ (q[1] = r[1] /\ q[2] < r[2])))
  /\ UNCHANGED << appFileTree, tickSupplied, pc, build, notes, thrown,
                  ticked, ret >>
  /\ UNCHANGED OutsidePush

\* client.updateRecord resolves with a response.
UpdateRecordResolve(r, res) ==
  /\ pc = "running"
  /\ phase[r] = "calling"
  /\ phase' = [ phase EXCEPT ![r] = "resolved" ]
  /\ pushPromises' = StoreSettled(pushPromises, r, Fulfilled(processPushResponse(res, r)))
  /\ ticked' = TickFinally(r)
  /\ outOfOrder' = (outOfOrder \/ Overtakes(r))
  /\ UNCHANGED << appFileTree, tickSupplied, pc, build, tries, calls, notes,
                  thrown, ret >>
  /\ UNCHANGED OutsidePush

\* client.updateRecord rejects with an error of message e.
UpdateRecordReject(r, e) ==
  /\ pc = "running"
  /\ phase[r] = "calling"
  /\ notes' = [ notes EXCEPT ![r] = @ + 1 ]
  /\ tries' = [ tries EXCEPT ![r] = @ - 1 ]
  /\ IF RetriesSpent(tries[r])
     THEN /\ phase' = [ phase EXCEPT ![r] = "exhausted" ]
          /\ thrown' = [ thrown EXCEPT ![r] = e ]
          /\ pushPromises' = StoreSettled(pushPromises, r, CatchResult(r, e))
          /\ ticked' = TickFinally(r)
          /\ outOfOrder' = (outOfOrder \/ Overtakes(r))
     ELSE /\ phase' = [ phase EXCEPT ![r] = "waiting" ]
          /\ UNCHANGED << pushPromises, ticked, outOfOrder, thrown >>
  /\ UNCHANGED << appFileTree, tickSupplied, pc, build, calls, ret >>
  /\ UNCHANGED OutsidePush

\* The delay between two attempts has elapsed: the next attempt is issued.
RetryWaitElapsed(r) ==
  /\ pc = "running"
  /\ phase[r] = "waiting"
  /\ phase' = [ phase EXCEPT ![r] = "calling" ]
  /\ calls' = [ calls EXCEPT ![r] = @ + 1 ]
  /\ UNCHANGED << appFileTree, tickSupplied, pc, build, tries, notes, thrown,
                  pushPromises, ticked, outOfOrder, ret >>
  /\ UNCHANGED OutsidePush

\* Promise.all over the tables settles and pushFiles returns.
PushFilesSettle ==
  /\ pc = "running"
  /\ PromiseAllSettled
  /\ pc' = IF AnyRejected THEN "failed" ELSE "done"
  /\ ret' = IF AnyRejected THEN <<>> ELSE FlatResults(pushPromises)
  /\ UNCHANGED << appFileTree, tickSupplied, build, phase, tries, calls, notes,
                  thrown, pushPromises, ticked, outOfOrder >>
  /\ UNCHANGED OutsidePush

PushNext ==
  \/ PushFilesStart
  \/ \E r \in Recs : BuildSettle(r)
  \/ \E t \in 1..Len(appFileTree) : TablePushStart(t)
  \/ \E r \in Recs : \E res \in Responses : UpdateRecordResolve(r, res)
  \/ \E r \in Recs : \E e \in ErrMessages : UpdateRecordReject(r, e)
  \/ \E r \in Recs : RetryWaitElapsed(r)
  \/ PushFilesSettle

InitPush == PushInit /\ ManIdle /\ MissIdle /\ OthersIdle

SpecPush == InitPush /\ [][PushNext]_vars

\* ---- properties of pushFiles

\* The per-record state of section 4.6, read off the promise states.
RecState(r) ==
  IF pc = "idle" THEN "PENDING"
  ELSE IF build[r].status = "building" THEN "BUILDING"
  ELSE IF build[r].status = "rejected" THEN "BUILD_FAILED"
  ELSE IF phase[r] = "none" THEN "BUILT"
  ELSE IF phase[r] \in {"calling", "waiting"} THEN "PUSHING"
  ELSE IF pushPromises[r][1].value.success THEN "PUSHED"
  ELSE "PUSH_FAILED"

RecIdent(r) == <<TableOf(r), RecAt(r).sys_id>>

\* C1: with a tick observer supplied, pushFiles has called it exactly once for
\* every record of the tree (recordCount times in all) when it returns,
\* whichever branch the record took.
C1_TickOncePerRecord ==
  (pc = "done" /\ tickSupplied) =>
     /\ \A r \in Recs : ticked[r] = 1
     /\ SumSeq([ k \in 1..Len(Enumeration) |-> ticked[Enumeration[k]] ])
          = countRecsInTree(appFileTree)

\* C2: the sequence pushFiles returns holds one PushResult per record of the
\* tree, the k-th result being that of the k-th record in table-then-record
\* enumeration order, whatever the order in which the records settled.
C2_ResultsInEnumerationOrder ==
  pc = "done" =>
     /\ Len(ret) = countRecsInTree(appFileTree)
     /\ \A k \in 1..Len(ret) : ret[k].of = RecIdent(Enumeration[k])

\* C2 witness: pushFiles returned after a record settled before one
\* enumerated ahead of it.
C2_Witness == pc = "done" /\ outOfOrder /\ Len(ret) >= 2

\* C3: pushFiles never fails as a whole and can always make progress until it
\* returns; when it returns, every record has a result, every record whose
\* build failed or whose update calls all failed has success = FALSE, and
\* every other record was built and its update call was issued.
C3_RecordFailuresAreData ==
  /\ pc # "failed"
  /\ pc \in {"idle", "running"} => ENABLED PushNext
  /\ pc = "done" =>
       /\ Len(ret) = countRecsInTree(appFileTree)
       /\ \A k \in 1..Len(Enumeration) :
            LET r == Enumeration[k] IN
            IF build[r].status = "rejected" \/ phase[r] = "exhausted"
            THEN ret[k].success = FALSE /\ ret[k].of = RecIdent(r)
            ELSE build[r].status = "fulfilled" /\ calls[r] >= 1

\* C3 witness: pushFiles returned; one record failed to build, another ran
\* out of retries or was pushed successfully.
C3_Witness ==
  /\ pc = "done"
  /\ \E r \in Recs : \E q \in Recs \ {r} :
       /\ build[r].status = "rejected" \/ phase[r] = "exhausted"
       /\ RecState(q) = "PUSHED"

\* The moves of the per-record state machine.
RecMoves ==
  { <<"PENDING", "BUILDING">>, <<"BUILDING", "BUILD_FAILED">>,
    <<"BUILDING", "BUILT">>, <<"BUILT", "PUSHING">>,
    <<"PUSHING", "PUSHED">>, <<"PUSHING", "PUSH_FAILED">> }

C4_StateInv ==
  \A r \in Recs :
    /\ build[r].status = "rejected" =>
         /\ calls[r] = 0 /\ notes[r] = 0
         /\ Settled(r) =>
              /\ pushPromises[r][1].status = "fulfilled"
              /\ pushPromises[r][1].value.success = FALSE
              /\ pushPromises[r][1].value.message =
                   summarizeRecord(TableOf(r), RecDesc(r)) \o " : " \o build[r].reason
    /\ calls[r] > 0 => build[r].status = "fulfilled"

C4_Step ==
  \A r \in Recs :
    \/ RecState(r)' = RecState(r)
    \/ <<RecState(r), RecState(r)'>> \in RecMoves

\* C4: a record moves PENDING -> BUILDING -> {BUILD_FAILED | BUILT} ->
\* PUSHING -> {PUSHED | PUSH_FAILED}; for a record whose build failed
\* updateRecord is never called and its result is a failure made of the
\* "<table> > <descriptor>" summary and the build's reason; updateRecord is
\* called only for records whose build succeeded.
C4_BuildFailureShortCircuits == []C4_StateInv /\ [][C4_Step]_vars

\* C4 witness: pushFiles returned with a record whose build was rejected.
C4_Witness ==
  /\ pc = "done"
  /\ \E r \in Recs : build[r].status = "rejected" /\ phase[r] = "skipped"

C5_StateInv ==
  \A r \in Recs :
    /\ calls[r] <= PUSH_RETRY_LIMIT
    /\ phase[r] \in {"calling", "waiting"} => tries[r] = PUSH_RETRY_LIMIT - notes[r]
    /\ phase[r] = "resolved" =>
         /\ notes[r] = calls[r] - 1
         /\ \E res \in Responses :
              pushPromises[r][1] = Fulfilled(processPushResponse(res, r))
    /\ phase[r] = "exhausted" =>
         /\ calls[r] = PUSH_RETRY_LIMIT
         /\ pushPromises[r][1].status = "fulfilled"
         /\ pushPromises[r][1].value.success = FALSE
         /\ pushPromises[r][1].value.message =
              RecSummary(r) \o " : " \o
                (IF thrown[r] # "" THEN thrown[r] ELSE "Too many retries")

C5_Step ==
  \A r \in Recs :
    /\ Settled(r) => calls'[r] = calls[r]
    /\ calls'[r] \in {calls[r], calls[r] + 1}
    /\ tries'[r] < tries[r] => notes'[r] = notes[r] + 1

\* C5: the update call of a built record is attempted one call at a time and
\* at most PUSH_RETRY_LIMIT times; resolved after k-1 failures it yields the
\* response's result after exactly k-1 notifications (k = limit included);
\* always failing, it is attempted exactly limit times and yields a failure
\* carrying the last error's message, or "Too many retries" without one; no
\* call follows the settling of the record; and a record's budget shrinks
\* only by its own failures.
C5_RetryBudgetPerRecord == []C5_StateInv /\ [][C5_Step]_vars

\* C5 witness: one record resolved on its last allowed attempt, another ran
\* out of attempts on an error without message.
C5_Witness ==
  \E r \in Recs : \E q \in Recs :
    /\ phase[r] = "resolved" /\ calls[r] = PUSH_RETRY_LIMIT
    /\ pushPromises[r][1].value.success
    /\ phase[q] = "exhausted" /\ thrown[q] = ""

\* C17 as stated: a record whose build has succeeded can go on to its update
\* call whatever the state of the builds of the other records.
C17_NoWaitForOtherBuilds ==
  \A r \in Recs :
    (pc = "running" /\ build[r].status = "fulfilled" /\ phase[r] = "none")
      => ENABLED TablePushStart(r[1])

\* C17, amended: a successfully built record goes on to its update call once
\* the builds of all the records of its own table have settled, and not
\* before; the builds of the records of other tables do not hold it back.
C17_WaitsForOwnTableOnly ==
  /\ \A r \in Recs :
       calls[r] >= 1 =>
         \A q \in Recs : q[1] = r[1] => build[q].status \in {"fulfilled", "rejected"}
  /\ \A r \in Recs :
       ( /\ pc = "running" /\ build[r].status = "fulfilled" /\ phase[r] = "none"
         /\ \A q \in Recs : q[1] = r[1] => build[q].status \in {"fulfilled", "rejected"} )
       => ENABLED TablePushStart(r[1])

\* C17 witness: the update call of a record has been issued while the build
\* of a record of another table is still running.
C17_Witness ==
  \E r \in Recs : \E q \in Recs :
    /\ q[1] # r[1]
    /\ calls[r] >= 1
    /\ build[q].status = "building"

\* =========================================================================
\* Part 2.  processManifest
\* =========================================================================

\* Table names a manifest may use, in key-enumeration order.
ManTableNames == <<"sys_script", "sys_ui_page">>

\* The k-th record of the pool the manifests are drawn from: records with two
\* files and with one, keyed by their name and keyed by another string.
ManRec(k) ==
  [ key    |-> "rec" \o ToString(k),
    sys_id |-> "id" \o ToString(k),
    name   |-> IF k % 2 = 0 THEN "Renamed" \o ToString(k) ELSE "rec" \o ToString(k),
    files  |-> IF k % 2 = 1
               THEN << [ name |-> "script", type |-> "js" ],
                       [ name |-> "style", type |-> "css" ] >>
               ELSE << [ name |-> "script", type |-> "js" ] >> ]

\* The manifest with sizes[t] records under its t-th table.
ManifestOf(sizes) ==
  [ t \in 1..Len(sizes) |->
      [ table |-> ManTableNames[t],
        recs  |-> [ i \in 1..sizes[t] |-> ManRec(i + t - 1) ] ] ]

Manifests ==
  { ManifestOf(sizes) : sizes \in
      { s \in UNION { [1..n -> 0..MaxManRecords] : n \in 0..Len(ManTableNames) } :
          SumSeq(s) <= MaxManRecords } }

\* Records <<t, i>> and files <<t, i, k>> of a manifest.
MRecsOf(man) ==
  UNION { { <<t, i>> : i \in 1..Len(man[t].recs) } : t \in 1..Len(man) }
MFilesOf(man) ==
  UNION { { <<r[1], r[2], k>> : k \in 1..Len(man[r[1]].recs[r[2]].files) } :
          r \in MRecsOf(man) }
MRecs == MRecsOf(manifest)
MFiles == MFilesOf(manifest)
MRec(r) == manifest[r[1]].recs[r[2]]
MFile(f) == manifest[f[1]].recs[f[2]].files[f[3]]
RecOf(f) == <<f[1], f[2]>>
TRecs(t) == { r \in MRecs : r[1] = t }
RFiles(r) == { f \in MFiles : RecOf(f) = r }

\* ---- paths, relative to ConfigManager.getSourcePath()

\* path.join(ConfigManager.getSourcePath(), tableName)
TablePath(t) == << manifest[t].table >>

\* recKeyToPath: path.join(tablePath, records[key].name)
WriteRecPath(r) == Append(TablePath(r[1]), MRec(r).name)

\* The path of a File below its record's directory.
SNFilePath(recPath, file) == Append(recPath, file.name \o "." \o file.type)

EmptyFs == [ p \in {} |-> "dir" ]

Prefixes(path) == { SubSeq(path, 1, n) : n \in 1..Len(path) }

\* fUtils.createDirRecursively: the directory and its missing parents.
createDirRecursively(files, path) ==
  [ p \in DOMAIN files \cup Prefixes(path) |->
      IF p \in DOMAIN files THEN files[p] ELSE "dir" ]

\* fUtils.writeSNFileCurry(forceWrite): the content is written unless the file
\* exists and the write is not forced.
writeSNFile(files, force, path) ==
  IF force \/ path \notin DOMAIN files
  THEN [ p \in DOMAIN files \cup {path} |-> IF p = path THEN "synced" ELSE files[p] ]
  ELSE files

\* ---- the waits of processRecsInManTable, processFilesInManRec and
\* ---- processTablesInManifest, read off the promise states

\* Variant: the file writes wait for one directory of the table only.
SomeTableDirCreated(ds, t) == \E r \in TRecs(t) : ds[r] = "created"

\* await Promise.all(recPathPromises) of table t has resolved.
TableDirsCreated(ds, t) == \A r \in TRecs(t) : ds[r] = "created"

\* Variant: the content is deleted as soon as one file of the record is written.
RecPartlyWritten(ws, r) == \E f \in RFiles(r) : ws[f] = "written"

\* await Promise.all(filePromises) of record r has resolved.
RecWritten(ws, r) == \A f \in RFiles(r) : ws[f] = "written"

\* Variant: the wait for the tables settles every promise instead of failing
\* with the first rejection.
AllTablesSettled(ds, ws) ==
  /\ \A r \in MRecs : ds[r] \in {"created", "failed"}
  /\ \A f \in MFiles : ws[f] \in {"written", "failed"} \/ ds[RecOf(f)] = "failed"
                         \/ \E q \in TRecs(f[1]) : ds[q] = "failed"

\* await Promise.all(tablePromises) has resolved.
AllTablesDone(ds, ws) ==
  \A t \in 1..Len(manifest) :
    /\ TableDirsCreated(ds, t)
    /\ \A r \in TRecs(t) : RecWritten(ws, r)

\* Some promise below Promise.all(tablePromises) has rejected.
AnyFailed(ds, ws) ==
  \/ \E r \in MRecs : ds[r] = "failed"
  \/ \E f \in MFiles : ws[f] = "failed"

\* Variant: only the first file of the record loses its content.
StripFirstFile(cont, r) ==
  [ f \in DOMAIN cont |-> IF RecOf(f) = r /\ f[3] = 1 THEN FALSE ELSE cont[f] ]

\* rec.files.forEach(file => { delete file.content; })
StripRec(cont, r) ==
  [ f \in DOMAIN cont |-> IF RecOf(f) = r THEN FALSE ELSE cont[f] ]

\* JSON.stringify(manifest, null, 2): a file's content is part of the text
\* exactly when the in-memory File has it.
Stringify(man, cont) ==
  [ t \in 1..Len(man) |->
      [ table |-> man[t].table,
        recs  |-> [ i \in 1..Len(man[t].recs) |->
          [ key |-> man[t].recs[i].key,
            sys_id |-> man[t].recs[i].sys_id,
            name |-> man[t].recs[i].name,
            files |-> [ k \in 1..Len(man[t].recs[i].files) |->
              IF cont[<<t, i, k>>]
              THEN [ name |-> man[t].recs[i].files[k].name,
                     type |-> man[t].recs[i].files[k].type,
                     content |-> "..." ]
              ELSE [ name |-> man[t].recs[i].files[k].name,
                     type |-> man[t].recs[i].files[k].type ] ] ] ] ] ]

\* Variant: a rejection below the wait for the tables goes unnoticed.
ManifestPcIgnoresFailure(ds, ws) ==
  IF pcM # "running" THEN pcM
  ELSE IF AllTablesDone(ds, ws) THEN "persisting"
  ELSE "running"

\* The position of processManifest after a step that leaves the directory and
\* write promises in states ds, ws.
ManifestPc(ds, ws) ==
  IF pcM # "running" THEN pcM
  ELSE IF AllTablesDone(ds, ws) THEN "persisting"
  ELSE IF AnyFailed(ds, ws) THEN "failed"
  ELSE "running"

\* Local trees processManifest may start from: an empty one, and one that
\* already holds a locally edited copy of the first file.
StartTrees(man) ==
  {EmptyFs} \cup
  { writeSNFile(createDirRecursively(EmptyFs, <<man[1].table, man[1].recs[1].name>>),
                TRUE,
                SNFilePath(<<man[1].table, man[1].recs[1].name>>, man[1].recs[1].files[1]))
      : x \in IF man # <<>> /\ man[1].recs # <<>> THEN {1} ELSE {} }

LocalEdit(files) ==
  [ p \in DOMAIN files |-> IF Len(p) = 3 THEN "local" ELSE files[p] ]

ManInit ==
  /\ manifest \in Manifests
  /\ fs \in { LocalEdit(x) : x \in StartTrees(manifest) }
  /\ forceWrite \in BOOLEAN
  /\ pcM = "idle"
  /\ dirState = [ r \in MRecsOf(manifest) |-> "idle" ]
  /\ writeState = [ f \in MFilesOf(manifest) |-> "idle" ]
  /\ content = [ f \in MFilesOf(manifest) |-> TRUE ]
  /\ manifestFile = <<>>

\* processManifest up to its first await: every createDirRecursively of every
\* table is started.
ProcessManifestStart ==
  /\ pcM = "idle"
  /\ dirState' = [ r \in MRecs |-> "creating" ]
  /\ pcM' = IF AllTablesDone(dirState', writeState) THEN "persisting" ELSE "running"
  /\ UNCHANGED << manifest, fs, forceWrite, writeState, content, manifestFile >>
  /\ UNCHANGED OutsideManifest

\* createDirRecursively of record r resolves; with the last directory of the
\* table the file writes of all its records are started.
DirCreated(r) ==
  /\ dirState[r] = "creating"
  /\ dirState' = [ dirState EXCEPT ![r] = "created" ]
  /\ fs' = createDirRecursively(fs, WriteRecPath(r))
  /\ writeState' = [ f \in MFiles |->
                       IF f[1] = r[1] /\ TableDirsCreated(dirState', r[1])
                       THEN "writing" ELSE writeState[f] ]
  /\ pcM' = ManifestPc(dirState', writeState')
  /\ UNCHANGED << manifest, forceWrite, content, manifestFile >>
  /\ UNCHANGED OutsideManifest

\* createDirRecursively of record r rejects.
DirFailed(r) ==
  /\ dirState[r] = "creating"
  /\ dirState' = [ dirState EXCEPT ![r] = "failed" ]
  /\ pcM' = ManifestPc(dirState', writeState)
  /\ UNCHANGED << manifest, fs, forceWrite, writeState, content, manifestFile >>
  /\ UNCHANGED OutsideManifest

\* fileWrite of file f resolves; with the last file of its record the content
\* of the record's files is deleted.
WriteDone(f) ==
  /\ writeState[f] = "writing"
  /\ writeState' = [ writeState EXCEPT ![f] = "written" ]
  /\ fs' = writeSNFile(fs, forceWrite, SNFilePath(WriteRecPath(RecOf(f)), MFile(f)))
  /\ content' = IF RecWritten(writeState', RecOf(f))
                THEN StripRec(content, RecOf(f)) ELSE content
  /\ pcM' = ManifestPc(dirState, writeState')
  /\ UNCHANGED << manifest, forceWrite, dirState, manifestFile >>
  /\ UNCHANGED OutsideManifest

\* fileWrite of file f rejects.
WriteFailed(f) ==
  /\ writeState[f] = "writing"
  /\ writeState' = [ writeState EXCEPT ![f] = "failed" ]
  /\ pcM' = ManifestPc(dirState, writeState')
  /\ UNCHANGED << manifest, fs, forceWrite, dirState, content, manifestFile >>
  /\ UNCHANGED OutsideManifest

\* fUtils.writeFileForce(manifestPath, text) resolves.
ManifestWritten ==
  /\ pcM = "persisting"
  /\ manifestFile' = << Stringify(manifest, content) >>
  /\ pcM' = "done"
  /\ UNCHANGED << manifest, fs, forceWrite, dirState, writeState, content >>
  /\ UNCHANGED OutsideManifest

\* fUtils.writeFileForce(manifestPath, text) rejects.
ManifestWriteFailed ==
  /\ pcM = "persisting"
  /\ pcM' = "failed"
  /\ UNCHANGED << manifest, fs, forceWrite, dirState, writeState, content,
                  manifestFile >>
  /\ UNCHANGED OutsideManifest

ManNext ==
  \/ ProcessManifestStart
  \/ \E r \in MRecs : DirCreated(r)
  \/ \E r \in MRecs : DirFailed(r)
  \/ \E f \in MFiles : WriteDone(f)
  \/ \E f \in MFiles : WriteFailed(f)
  \/ ManifestWritten
  \/ ManifestWriteFailed

InitManifest == ManInit /\ PushIdle /\ MissIdle /\ OthersIdle

SpecManifest == InitManifest /\ [][ManNext]_vars

\* ---- properties of processManifest

\* C6: the manifest file is written only after every directory creation and
\* every file write of every table and record has succeeded; once a creation
\* or write has failed, processManifest has failed and the manifest file is
\* never written.
C6_PersistAfterAllWrites ==
  /\ (pcM \in {"persisting", "done"} \/ manifestFile # <<>>) =>
       /\ \A r \in MRecs : dirState[r] = "created"
       /\ \A f \in MFiles : writeState[f] = "written"
  /\ ((\E r \in MRecs : dirState[r] = "failed")
        \/ (\E f \in MFiles : writeState[f] = "failed")) =>
       /\ pcM = "failed"
       /\ manifestFile = <<>>

\* C6 witness: the manifest of two records has been persisted.
C6_Witness ==
  /\ pcM = "done" /\ manifestFile # <<>>
  /\ Cardinality(MRecs) >= 2

\* C7 as stated: in a run where some file write has failed, no file of the
\* in-memory manifest has lost its content.
C7_NoStripWhenAWriteFails ==
  (\E f \in MFiles : writeState[f] = "failed") =>
     \A f \in MFiles : content[f]

\* C7 amended: the files of a record lose their content only after every file
\* write of that record has succeeded, so a record with a failed write keeps
\* the content of all its files.
C7_StripAfterRecordWritten ==
  \A f \in MFiles :
    ~content[f] => \A g \in RFiles(RecOf(f)) : writeState[g] = "written"

\* C7 witness: a write of one record has failed after another record was
\* written and stripped.
C7_Witness ==
  \E f \in MFiles : \E g \in MFiles :
    /\ RecOf(f) # RecOf(g)
    /\ writeState[f] = "failed"
    /\ ~content[g]

\* C8: a written manifest file carries no content field on any file entry of
\* any record.
C8_PersistedWithoutContent ==
  manifestFile # <<>> =>
    \A t \in 1..Len(manifestFile[1]) :
      \A i \in 1..Len(manifestFile[1][t].recs) :
        \A k \in 1..Len(manifestFile[1][t].recs[i].files) :
          "content" \notin DOMAIN manifestFile[1][t].recs[i].files[k]

\* C8 witness: the persisted manifest has a table of several records, one of
\* them with several files.
C8_Witness ==
  /\ manifestFile # <<>>
  /\ \E t \in 1..Len(manifest) :
       /\ Len(manifest[t].recs) >= 2
       /\ \E i \in 1..Len(manifest[t].recs) : Len(manifest[t].recs[i].files) >= 2

\* C18 as stated: once a directory creation or a file write has failed, the
\* filesystem does not change any more and no content is stripped any more.
C18_SiblingsAborted ==
  [][ ((\E r \in MRecs : dirState[r] = "failed")
         \/ (\E f \in MFiles : writeState[f] = "failed"))
      => (fs' = fs /\ content' = content) ]_vars

\* C18, amended: the first failure makes processManifest fail without the
\* manifest file being written, but it aborts nothing: a directory creation
\* or file write that was started can still complete after the failure; the
\* only work that never happens is work that was not started, the file
\* writes of a table one of whose directory creations failed.
C18_FailureAbortsNothingStarted ==
  /\ ((\E r \in MRecs : dirState[r] = "failed")
        \/ (\E f \in MFiles : writeState[f] = "failed"))
       => (pcM = "failed" /\ manifestFile = <<>>)
  /\ \A r \in MRecs : dirState[r] = "creating" => ENABLED DirCreated(r)
  /\ \A f \in MFiles : writeState[f] = "writing" => ENABLED WriteDone(f)
  /\ \A f \in MFiles :
       (\E q \in MRecs : q[1] = f[1] /\ dirState[q] = "failed")
         => writeState[f] = "idle"

\* C18 witness: processManifest has failed on a file write while another file
\* write and a directory creation of another table are still under way.
C18_Witness ==
  /\ pcM = "failed"
  /\ \E f \in MFiles : \E g \in MFiles : \E r \in MRecs :
       /\ writeState[f] = "failed"
       /\ writeState[g] = "writing"
       /\ r[1] # f[1] /\ dirState[r] = "creating"

\* C19: a file write is started only after the directories of all the records
\* of its table have been created; as long as one of them is not created, and
\* for good if one of them failed, no file of the table is written.
C19_WritesAfterTableDirs ==
  /\ \A f \in MFiles :
       writeState[f] # "idle" =>
         \A q \in MRecs : q[1] = f[1] => dirState[q] = "created"
  /\ \A f \in MFiles :
       (\E q \in MRecs : q[1] = f[1] /\ dirState[q] # "created") =>
         LET p == SNFilePath(WriteRecPath(RecOf(f)), MFile(f))
         IN  p \in DOMAIN fs => fs[p] = "local"

\* C19 witness: in a table of two records one directory was created and the
\* other creation failed, and no file of the table has a write started.
C19_Witness ==
  \E r \in MRecs : \E q \in MRecs :
    /\ r[1] = q[1]
    /\ dirState[r] = "created"
    /\ dirState[q] = "failed"
    /\ \A f \in MFiles : f[1] = r[1] => writeState[f] = "idle"

\* =========================================================================
\* Part 3.  findMissingFiles
\* =========================================================================

\* fUtils.appendToPath(tablePath)(recName): the record's key below the table.
ProbeRecPath(r) == Append(TablePath(r[1]), MRec(r).key)

\* The path SNFileExists(recPath) looks for.
ProbeFilePath(f) == SNFilePath(ProbeRecPath(RecOf(f)), MFile(f))

\* The paths findMissingFiles can ask for, with a manifest man.
ProbePathsOf(man) ==
  { << man[t].table >> : t \in 1..Len(man) }
  \cup { << man[r[1]].table, man[r[1]].recs[r[2]].key >> : r \in MRecsOf(man) }
  \cup { SNFilePath(<< man[f[1]].table, man[f[1]].recs[f[2]].key >>,
                    man[f[1]].recs[f[2]].files[f[3]]) : f \in MFilesOf(man) }

\* Local trees: a file or directory exists only inside an existing directory.
LocalTrees(man) ==
  { [ p \in S |-> IF Len(p) = 3 THEN "local" ELSE "dir" ] :
      S \in { X \in SUBSET ProbePathsOf(man) :
                \A p \in X : Prefixes(p) \subseteq X } }

\* fUtils.pathExists / SNFileExists on the unchanging local tree.
Probe(path) == IF path \in DOMAIN fs THEN "present" ELSE "absent"

EmptyMissing == [ k \in {} |-> <<>> ]

\* Variant: the record's list is replaced instead of extended.
markFileMissingAnew(m, table, recordId, file) ==
  [ k \in DOMAIN m \cup { <<table, recordId>> } |->
      IF k = <<table, recordId>>
      THEN << [ name |-> file.name, type |-> file.type ] >>
      ELSE m[k] ]

\* markFileMissing(missingObj)(table)(recordId)(file)
markFileMissing(m, table, recordId, file) ==
  [ k \in DOMAIN m \cup { <<table, recordId>> } |->
      IF k = <<table, recordId>>
      THEN (IF k \in DOMAIN m THEN m[k] ELSE <<>>)
             \o << [ name |-> file.name, type |-> file.type ] >>
      ELSE m[k] ]

RECURSIVE markFiles(_, _, _, _)
\* files.forEach(file => missingFunc(recordId)(file))
markFiles(m, table, recordId, files) ==
  IF files = <<>> THEN m
  ELSE markFiles(markFileMissing(m, table, recordId, Head(files)),
                 table, recordId, Tail(files))

\* markRecordMissing(record, missingFunc(tableName))
markRecordMissing(m, table, record) ==
  markFiles(m, table, record.sys_id, record.files)

RECURSIVE markRecords(_, _, _)
markRecords(m, table, recs) ==
  IF recs = <<>> THEN m
  ELSE markRecords(markRecordMissing(m, table, Head(recs)), table, Tail(recs))

\* markTableMissing(table, tableName, missingFunc)
markTableMissing(m, tableCfg) == markRecords(m, tableCfg.table, tableCfg.recs)

\* Variant: the early return after marking is lost, so the level below is
\* probed whatever the check said.
DescendAlways(check) == check \in {"present", "absent"}

\* if (!check) { mark...; return; }  -- the level below is probed only when
\* the directory exists.
Descend(check) == check = "present"

Resolved(check) == check \in {"present", "absent"}

\* checkTablesForMissing after its await: absent tables are marked, the record
\* directories of the others are probed.
RECURSIVE MarkAbsentTables(_, _, _)
MarkAbsentTables(m, tc, t) ==
  IF t > Len(manifest) THEN m
  ELSE MarkAbsentTables(
         IF tc[t] = "absent" THEN markTableMissing(m, manifest[t]) ELSE m,
         tc, t + 1)

\* checkRecordsForMissing after its await, for table t.
RECURSIVE MarkAbsentRecs(_, _, _, _)
MarkAbsentRecs(m, rc, t, i) ==
  IF i > Len(manifest[t].recs) THEN m
  ELSE MarkAbsentRecs(
         IF rc[<<t, i>>] = "absent"
         THEN markRecordMissing(m, manifest[t].table, manifest[t].recs[i]) ELSE m,
         rc, t, i + 1)

\* checkFilesForMissing after its await, for record r.
RECURSIVE MarkAbsentFiles(_, _, _, _)
MarkAbsentFiles(m, fc, r, k) ==
  IF k > Len(MRec(r).files) THEN m
  ELSE MarkAbsentFiles(
         IF fc[<<r[1], r[2], k>>] = "absent"
         THEN markFileMissing(m, manifest[r[1]].table, MRec(r).sys_id, MRec(r).files[k])
         ELSE m,
         fc, r, k + 1)

\* Every promise findMissingFiles waits for has resolved.
FindFinished(tc, rc, fc) ==
  \A t \in 1..Len(manifest) :
    /\ Resolved(tc[t])
    /\ Descend(tc[t]) =>
         \A r \in TRecs(t) :
           /\ Resolved(rc[r])
           /\ Descend(rc[r]) => \A f \in RFiles(r) : Resolved(fc[f])

MissInit ==
  /\ manifest \in Manifests
  /\ fs \in LocalTrees(manifest)
  /\ forceWrite = FALSE /\ pcM = "off"
  /\ dirState = <<>> /\ writeState = <<>> /\ content = <<>>
  /\ manifestFile = <<>>
  /\ pcF = "idle"
  /\ probed = {}
  /\ tableCheck = [ t \in 1..Len(manifest) |-> "none" ]
  /\ recCheck = [ r \in MRecsOf(manifest) |-> "none" ]
  /\ fileCheck = [ f \in MFilesOf(manifest) |-> "none" ]
  /\ missing = EmptyMissing

\* findMissingFiles up to its first await: every table path is probed.
FindMissingStart ==
  /\ pcF = "idle"
  /\ tableCheck' = [ t \in 1..Len(manifest) |-> "pending" ]
  /\ probed' = probed \cup { TablePath(t) : t \in 1..Len(manifest) }
  /\ pcF' = IF FindFinished(tableCheck', recCheck, fileCheck) THEN "done" ELSE "running"
  /\ UNCHANGED << recCheck, fileCheck, missing >>
  /\ UNCHANGED OutsideMissing

\* pathExists of a table path resolves; with the last of them the absent
\* tables are marked and the record directories of the present ones probed.
TableProbeDone(t) ==
  /\ tableCheck[t] = "pending"
  /\ tableCheck' = [ tableCheck EXCEPT ![t] = Probe(TablePath(t)) ]
  /\ IF \A u \in 1..Len(manifest) : Resolved(tableCheck'[u])
     THEN /\ missing' = MarkAbsentTables(missing, tableCheck', 1)
          /\ recCheck' = [ r \in MRecs |->
                             IF Descend(tableCheck'[r[1]]) THEN "pending" ELSE recCheck[r] ]
          /\ probed' = probed \cup
                         { ProbeRecPath(r) : r \in { q \in MRecs : Descend(tableCheck'[q[1]]) } }
     ELSE UNCHANGED << missing, recCheck, probed >>
  /\ pcF' = IF FindFinished(tableCheck', recCheck', fileCheck) THEN "done" ELSE pcF
  /\ UNCHANGED fileCheck
  /\ UNCHANGED OutsideMissing

\* pathExists of a record directory resolves; with the last one of the table
\* the absent records are marked and the files of the present ones probed.
RecProbeDone(r) ==
  /\ recCheck[r] = "pending"
  /\ recCheck' = [ recCheck EXCEPT ![r] = Probe(ProbeRecPath(r)) ]
  /\ IF \A q \in TRecs(r[1]) : Resolved(recCheck'[q])
     THEN /\ missing' = MarkAbsentRecs(missing, recCheck', r[1], 1)
          /\ fileCheck' = [ f \in MFiles |->
                              IF f[1] = r[1] /\ Descend(recCheck'[RecOf(f)])
                              THEN "pending" ELSE fileCheck[f] ]
          /\ probed' = probed \cup
                         { ProbeFilePath(f) :
                             f \in { g \in MFiles : g[1] = r[1] /\ Descend(recCheck'[RecOf(g)]) } }
     ELSE UNCHANGED << missing, fileCheck, probed >>
  /\ pcF' = IF FindFinished(tableCheck, recCheck', fileCheck') THEN "done" ELSE pcF
  /\ UNCHANGED tableCheck
  /\ UNCHANGED OutsideMissing

\* SNFileExists of a file resolves; with the last one of the record the
\* absent files are marked.
FileProbeDone(f) ==
  /\ fileCheck[f] = "pending"
  /\ fileCheck' = [ fileCheck EXCEPT ![f] = Probe(ProbeFilePath(f)) ]
  /\ missing' = IF \A g \in RFiles(RecOf(f)) : Resolved(fileCheck'[g])
                THEN MarkAbsentFiles(missing, fileCheck', RecOf(f), 1)
                ELSE missing
  /\ pcF' = IF FindFinished(tableCheck, recCheck, fileCheck') THEN "done" ELSE pcF
  /\ UNCHANGED << tableCheck, recCheck, probed >>
  /\ UNCHANGED OutsideMissing

MissNext ==
  \/ FindMissingStart
  \/ \E t \in 1..Len(manifest) : TableProbeDone(t)
  \/ \E r \in MRecs : RecProbeDone(r)
  \/ \E f \in MFiles : FileProbeDone(f)

InitMissing == MissInit /\ PushIdle /\ OthersIdle

SpecMissing == InitMissing /\ [][MissNext]_vars

\* ---- properties of findMissingFiles

\* The files of record r that are not on disk, as {name, type}, in file order.
AbsentFilesOf(r) ==
  LET absent == SelectSeq([ k \in 1..Len(MRec(r).files) |-> k ],
                          LAMBDA k : ProbeFilePath(<<r[1], r[2], k>>) \notin DOMAIN fs)
  IN  [ j \in 1..Len(absent) |->
          [ name |-> MRec(r).files[absent[j]].name,
            type |-> MRec(r).files[absent[j]].type ] ]

MissingKey(r) == << manifest[r[1]].table, MRec(r).sys_id >>

\* C9: the map findMissingFiles returns has an entry, under table name and
\* sys_id, for exactly the records with a file that is not on disk, listing
\* exactly those files as {name, type}; it is empty exactly when every file
\* the manifest declares is on disk.
C9_MissingIsExactlyTheAbsentFiles ==
  pcF = "done" =>
    /\ DOMAIN missing = { MissingKey(r) : r \in { q \in MRecs : AbsentFilesOf(q) # <<>> } }
    /\ \A r \in MRecs : AbsentFilesOf(r) # <<>> => missing[MissingKey(r)] = AbsentFilesOf(r)
    /\ (DOMAIN missing = {}) <=> (\A f \in MFiles : ProbeFilePath(f) \in DOMAIN fs)

\* C9 witness: findMissingFiles returned for a tree that holds one declared
\* file and lacks two files of another record.
C9_Witness ==
  /\ pcF = "done"
  /\ \E f \in MFiles : ProbeFilePath(f) \in DOMAIN fs
  /\ \E r \in MRecs : Len(AbsentFilesOf(r)) >= 2

\* C10: a path below a directory is probed only if that directory exists, so
\* nothing is probed below an absent table or an absent record directory; and
\* every file of every record of an absent table, and every file of a record
\* whose directory is absent, is reported missing.
C10_NoProbeBelowAbsentDirectory ==
  /\ \A p \in probed : Len(p) >= 2 => SubSeq(p, 1, Len(p) - 1) \in DOMAIN fs
  /\ pcF = "done" =>
       \A r \in MRecs :
         (TablePath(r[1]) \notin DOMAIN fs \/ ProbeRecPath(r) \notin DOMAIN fs)
           /\ MRec(r).files # <<>>
         => /\ MissingKey(r) \in DOMAIN missing
            /\ missing[MissingKey(r)] =
                 [ k \in 1..Len(MRec(r).files) |->
                     [ name |-> MRec(r).files[k].name, type |-> MRec(r).files[k].type ] ]

\* C10 witness: findMissingFiles returned for a tree that lacks the directory
\* of one table and, in another table, the directory of a record.
C10_Witness ==
  /\ pcF = "done"
  /\ \E r \in MRecs : \E q \in MRecs :
       /\ TablePath(r[1]) \notin DOMAIN fs
       /\ TablePath(q[1]) \in DOMAIN fs
       /\ ProbeRecPath(q) \notin DOMAIN fs

\* =========================================================================
\* Part 4.  processManifest followed by findMissingFiles
\* =========================================================================

\* A caller writes the manifest out with processManifest(manifest, true) into
\* an empty source tree and, once that has resolved, asks findMissingFiles
\* about the same manifest.
InitRoundTrip ==
  /\ manifest \in Manifests
  /\ fs = EmptyFs
  /\ forceWrite = TRUE
  /\ pcM = "idle"
  /\ dirState = [ r \in MRecsOf(manifest) |-> "idle" ]
  /\ writeState = [ f \in MFilesOf(manifest) |-> "idle" ]
  /\ content = [ f \in MFilesOf(manifest) |-> TRUE ]
  /\ manifestFile = <<>>
  /\ pcF = "idle"
  /\ probed = {}
  /\ tableCheck = [ t \in 1..Len(manifest) |-> "none" ]
  /\ recCheck = [ r \in MRecsOf(manifest) |-> "none" ]
  /\ fileCheck = [ f \in MFilesOf(manifest) |-> "none" ]
  /\ missing = EmptyMissing
  /\ PushIdle /\ OthersIdle

\* The steps of processManifest, then, once it has resolved, those of
\* findMissingFiles.
RoundTripNext ==
  \/ ProcessManifestStart
  \/ \E r \in MRecs : DirCreated(r)
  \/ \E r \in MRecs : DirFailed(r)
  \/ \E f \in MFiles : WriteDone(f)
  \/ \E f \in MFiles : WriteFailed(f)
  \/ ManifestWritten
  \/ ManifestWriteFailed
  \/ pcM = "done" /\ FindMissingStart
  \/ pcM = "done" /\ \E t \in 1..Len(manifest) : TableProbeDone(t)
  \/ pcM = "done" /\ \E r \in MRecs : RecProbeDone(r)
  \/ pcM = "done" /\ \E f \in MFiles : FileProbeDone(f)

SpecRoundTrip == InitRoundTrip /\ [][RoundTripNext]_vars

\* C20: after processManifest(M, true) has resolved on a source tree that was
\* empty, findMissingFiles(M) returns the empty map, also for a manifest with
\* a record whose key is not its name.
C20_NothingMissingAfterWrite ==
  (pcM = "done" /\ pcF = "done") => missing = EmptyMissing

\* =========================================================================
\* Part 5.  processMissingFiles
\* =========================================================================

\* The files SNClient.getMissingFiles returns for one record: those the
\* missing map lists for it, in the manifest's order.
FetchedFiles(man, miss, t, i) ==
  LET k == << man[t].table, man[t].recs[i].sys_id >>
  IN  IF k \notin DOMAIN miss THEN <<>>
      ELSE SelectSeq(man[t].recs[i].files,
                     LAMBDA file : \E j \in 1..Len(miss[k]) :
                        miss[k][j] = [ name |-> file.name, type |-> file.type ])

\* filesToProcess: the manifest-shaped fragment with the records that have a
\* missing file, each with its missing files only, under the tables that
\* have such a record.
FragmentOf(man, miss) ==
  LET recsOf(t) ==
        LET keep == SelectSeq([ i \in 1..Len(man[t].recs) |-> i ],
                              LAMBDA i : FetchedFiles(man, miss, t, i) # <<>>)
        IN  [ j \in 1..Len(keep) |->
                [ man[t].recs[keep[j]] EXCEPT
                    !.files = FetchedFiles(man, miss, t, keep[j]) ] ]
      tabs == SelectSeq([ t \in 1..Len(man) |-> t ], LAMBDA t : recsOf(t) # <<>>)
  IN  [ p \in 1..Len(tabs) |->
          [ table |-> man[tabs[p]].table, recs |-> recsOf(tabs[p]) ] ]

\* Local trees processMissingFiles is run on: the empty tree, the tree that
\* holds everything the manifest declares, and the trees that lack one file.
ReconcileTrees(man) ==
  { T \in LocalTrees(man) :
      \/ DOMAIN T = {}
      \/ Cardinality(ProbePathsOf(man) \ DOMAIN T) <= 1 }

\* processMissingFiles(newManifest) has not been called yet.
InitReconcile ==
  /\ manifest \in Manifests
  /\ fs \in ReconcileTrees(manifest)
  /\ forceWrite = FALSE /\ pcM = "off"
  /\ dirState = <<>> /\ writeState = <<>> /\ content = <<>>
  /\ manifestFile = <<>>
  /\ pcF = "idle"
  /\ probed = {}
  /\ tableCheck = [ t \in 1..Len(manifest) |-> "none" ]
  /\ recCheck = [ r \in MRecsOf(manifest) |-> "none" ]
  /\ fileCheck = [ f \in MFilesOf(manifest) |-> "none" ]
  /\ missing = EmptyMissing
  /\ PushIdle /\ OthersIdle

\* SNClient.getMissingFiles(missing) resolves with the fragment, which becomes
\* the table map at hand: processTablesInManifest(filesToProcess, false) runs
\* up to its first await and starts every createDirRecursively.
GetMissingFilesResolve ==
  LET filesToProcess == FragmentOf(manifest, missing) IN
  /\ pcF = "done" /\ pcM = "off"
  /\ manifest' = filesToProcess
  /\ forceWrite' = FALSE
  /\ dirState' = [ r \in MRecsOf(filesToProcess) |-> "creating" ]
  /\ writeState' = [ f \in MFilesOf(filesToProcess) |-> "idle" ]
  /\ content' = [ f \in MFilesOf(filesToProcess) |-> TRUE ]
  /\ pcM' = IF filesToProcess = <<>> THEN "persisting" ELSE "running"
  /\ UNCHANGED << fs, manifestFile >>
  /\ UNCHANGED OutsideManifest

\* SNClient.getMissingFiles(missing) rejects: processMissingFiles rejects.
GetMissingFilesReject ==
  /\ pcF = "done" /\ pcM = "off"
  /\ pcM' = "failed"
  /\ UNCHANGED << manifest, fs, forceWrite, dirState, writeState, content,
                  manifestFile >>
  /\ UNCHANGED OutsideManifest

\* Variant: processMissingFiles goes through processManifest and writes the
\* manifest file.
ProcessMissingFilesPersists ==
  /\ pcF = "done" /\ pcM = "persisting"
  /\ pcM' = "done"
  /\ manifestFile' = << Stringify(manifest, content) >>
  /\ UNCHANGED << manifest, fs, forceWrite, dirState, writeState, content >>
  /\ UNCHANGED OutsideManifest

\* await processTablesInManifest(filesToProcess, false) has resolved: nothing
\* is left to do and processMissingFiles resolves.
ProcessMissingFilesReturn ==
  /\ pcF = "done" /\ pcM = "persisting"
  /\ pcM' = "done"
  /\ UNCHANGED << manifest, fs, forceWrite, dirState, writeState, content,
                  manifestFile >>
  /\ UNCHANGED OutsideManifest

\* processTablesInManifest has been called with the fragment.
FragmentAtHand == pcM # "off" /\ DOMAIN dirState = MRecs

ReconcileNext ==
  \/ pcM = "off" /\ FindMissingStart
  \/ pcM = "off" /\ \E t \in 1..Len(manifest) : TableProbeDone(t)
  \/ pcM = "off" /\ \E r \in MRecs : RecProbeDone(r)
  \/ pcM = "off" /\ \E f \in MFiles : FileProbeDone(f)
  \/ GetMissingFilesResolve
  \/ GetMissingFilesReject
  \/ FragmentAtHand /\ \E r \in MRecs : DirCreated(r)
  \/ FragmentAtHand /\ \E r \in MRecs : DirFailed(r)
  \/ FragmentAtHand /\ \E f \in MFiles : WriteDone(f)
  \/ FragmentAtHand /\ \E f \in MFiles : WriteFailed(f)
  \/ ProcessMissingFilesReturn

SpecReconcile == InitReconcile /\ [][ReconcileNext]_vars

\* C15 as stated: when processMissingFiles has completed after it fetched and
\* wrote the missing files, the manifest file has been written.
C15_PersistedAfterReconcile ==
  (pcF = "done" /\ pcM = "done" /\ MFiles # {}
     /\ \A f \in MFiles : writeState[f] = "written")
    => manifestFile # <<>>

\* C15, amended: processMissingFiles writes the fetched files and nothing
\* else: it has completed only when every directory creation and file write
\* of the fragment has succeeded, and it never writes the manifest file.
C15_ReconcileWritesFilesOnly ==
  /\ manifestFile = <<>>
  /\ (pcF = "done" /\ pcM = "done") =>
       /\ \A r \in MRecs : dirState[r] = "created"
       /\ \A f \in MFiles :
            /\ writeState[f] = "written"
            /\ SNFilePath(WriteRecPath(RecOf(f)), MFile(f)) \in DOMAIN fs

\* C15 witness: processMissingFiles has completed after it wrote the fetched
\* files of two records.
C15_Witness ==
  /\ pcF = "done" /\ pcM = "done"
  /\ Cardinality(MRecs) >= 2
  /\ \A f \in MFiles : writeState[f] = "written"

\* =========================================================================
\* Part 6.  buildRec, field by field
\* =========================================================================

\* Largest number of fields of a record handed to buildRec.
MaxFields == 4

\* The records buildRec is called with: groupAppFiles creates a record with
\* its first field, so there is at least one.
RecordsToBuild ==
  { [ fields |-> [ f \in 1..n |-> "field" \o ToString(f) ] ] : n \in 1..MaxFields }

InitBuild ==
  /\ recToBuild \in RecordsToBuild
  /\ fieldBuild = [ f \in 1..Len(recToBuild.fields) |-> "idle" ]
  /\ pcB = "idle"
  /\ built = Pending
  /\ PushIdle /\ ManIdle /\ MissIdle /\ GroupIdle /\ ScopeIdle /\ UpdateSetIdle

\* buildRec up to its await: getFinalFileContents is called for every field.
BuildRecStart ==
  /\ pcB = "idle"
  /\ fieldBuild' = [ f \in DOMAIN fieldBuild |-> "pending" ]
  /\ pcB' = "waiting"
  /\ UNCHANGED << recToBuild, built >>
  /\ UNCHANGED OutsideBuild

\* allSettled(buildPromises) resolves when no field is pending any more; the
\* rest of buildRec then runs on the outcomes.
BuildRecContinue(outs) ==
  IF \E f \in DOMAIN outs : outs[f] = "pending"
  THEN /\ pcB' = pcB
       /\ built' = built
  ELSE /\ built' = buildRec(recToBuild, outs)
       /\ pcB' = built'.status

\* getFinalFileContents of field f resolves.
FieldBuilt(f) ==
  /\ pcB = "waiting"
  /\ fieldBuild[f] = "pending"
  /\ fieldBuild' = [ fieldBuild EXCEPT ![f] = "ok" ]
  /\ BuildRecContinue(fieldBuild')
  /\ UNCHANGED recToBuild
  /\ UNCHANGED OutsideBuild

\* getFinalFileContents of field f rejects.
FieldFailed(f) ==
  /\ pcB = "waiting"
  /\ fieldBuild[f] = "pending"
  /\ fieldBuild' = [ fieldBuild EXCEPT ![f] = "err" ]
  /\ BuildRecContinue(fieldBuild')
  /\ UNCHANGED recToBuild
  /\ UNCHANGED OutsideBuild

BuildNext ==
  \/ BuildRecStart
  \/ \E f \in DOMAIN fieldBuild : FieldBuilt(f)
  \/ \E f \in DOMAIN fieldBuild : FieldFailed(f)

SpecBuild == InitBuild /\ [][BuildNext]_vars

\* The failed fields of the record at hand, in field order.
FailedFields ==
  SelectSeq([ f \in 1..Len(recToBuild.fields) |-> f ],
            LAMBDA f : fieldBuild[f] = "err")

RECURSIVE FieldLines(_)
\* One line per failed field: the field's index among the record's fields
\* (from 0, as Object.keys numbers them) and the reason of its failure.
FieldLines(fs1) ==
  IF fs1 = <<>> THEN ""
  ELSE "\n" \o ToString(Head(fs1) - 1) \o ": "
         \o BuildReason(recToBuild.fields[Head(fs1)]) \o FieldLines(Tail(fs1))

\* C11 without the index: buildRec settles only after every field has settled;
\* it fulfils, with exactly the record's fields mapped to their own built
\* content, when every field succeeded, and rejects otherwise, never with a
\* partial map.
C11_AllOrNothing ==
  /\ pcB \in {"fulfilled", "rejected"} =>
       \A f \in DOMAIN fieldBuild : fieldBuild[f] \in {"ok", "err"}
  /\ pcB = "fulfilled" =>
       /\ FailedFields = <<>>
       /\ DOMAIN built.value = Range(recToBuild.fields)
       /\ \A n \in DOMAIN built.value : built.value[n] = BuiltContent(n)
  /\ pcB = "rejected" => (FailedFields # <<>> /\ built.value = <<>>)
  /\ (pcB \in {"fulfilled", "rejected"} /\ FailedFields # <<>>) => pcB = "rejected"

\* C11: buildRec is all-or-nothing as above, and the message it fails with
\* lists every failed field with the field's index and its reason.
C11_SettlesEveryFieldAllOrNothing ==
  /\ C11_AllOrNothing
  /\ pcB = "rejected" =>
       built.reason = "Failed to build!" \o FieldLines(FailedFields)

\* =========================================================================
\* Part 7.  groupAppFiles
\* =========================================================================

\* Largest number of file contexts handed to groupAppFiles.
MaxCtxs == 2

\* The file contexts: two files of different extension can name the same
\* field of the same record.
FileContexts ==
  [ tableName   : {"incident", "sys_script"},
    sys_id      : {"id1", "id2"},
    targetField : {"script", "css"},
    ext         : {"js", "ts"} ]

\* The reorderings of a sequence.
Reorderings(s) ==
  { [ i \in 1..Len(s) |-> s[p[i]] ] :
      p \in { q \in [ 1..Len(s) -> 1..Len(s) ] :
                \A a \in 1..Len(s) : \E b \in 1..Len(s) : q[b] = a } }

\* {} as a record of records.
EmptyObject == [ k \in {} |-> <<>> ]

\* Variant: the key is set to a fresh object whether or not it is there.
fillAnew(rec, key) ==
  [ k \in DOMAIN rec \cup {key} |-> IF k = key THEN EmptyObject ELSE rec[k] ]

\* if (!rec[key]) { rec[key] = {}; }
fillIfNotExists(rec, key) ==
  [ k \in DOMAIN rec \cup {key} |-> IF k \in DOMAIN rec THEN rec[k] ELSE EmptyObject ]

\* rec[key] = value
SetKey(rec, key, value) ==
  [ k \in DOMAIN rec \cup {key} |-> IF k = key THEN value ELSE rec[k] ]

\* The callback of the reduce: cur is filed under its table, sys_id and field.
GroupOne(tree, cur) ==
  LET withTable == fillIfNotExists(tree, cur.tableName)
      withRec == fillIfNotExists(withTable[cur.tableName], cur.sys_id)
  IN  SetKey(withTable, cur.tableName,
             SetKey(withRec, cur.sys_id,
                    SetKey(withRec[cur.sys_id], cur.targetField, cur)))

RECURSIVE GroupFrom(_, _)
GroupFrom(tree, ctxs) ==
  IF ctxs = <<>> THEN tree
  ELSE GroupFrom(GroupOne(tree, Head(ctxs)), Tail(ctxs))

\* fileCtxs.reduce(..., {})
groupAppFiles(ctxs) == GroupFrom(EmptyObject, ctxs)

InitGroup ==
  /\ fileCtxs \in UNION { [ 1..n -> FileContexts ] : n \in 0..MaxCtxs }
  /\ reordered \in Reorderings(fileCtxs)
  /\ grouped = <<>>
  /\ regrouped = <<>>
  /\ PushIdle /\ ManIdle /\ MissIdle /\ BuildIdle /\ ScopeIdle /\ UpdateSetIdle

\* groupAppFiles is applied to the contexts in their first order.
GroupOriginal ==
  /\ grouped = <<>>
  /\ grouped' = << groupAppFiles(fileCtxs) >>
  /\ UNCHANGED << fileCtxs, reordered, regrouped >>
  /\ UNCHANGED OutsideGroup

\* groupAppFiles is applied to the contexts in their other order.
GroupReordered ==
  /\ regrouped = <<>>
  /\ regrouped' = << groupAppFiles(reordered) >>
  /\ UNCHANGED << fileCtxs, reordered, grouped >>
  /\ UNCHANGED OutsideGroup

GroupNext == GroupOriginal \/ GroupReordered

SpecGroup == InitGroup /\ [][GroupNext]_vars

\* Two contexts of the input name the same field of the same record of the
\* same table and are not the same context.
Clash ==
  \E a \in 1..Len(fileCtxs) : \E b \in 1..Len(fileCtxs) :
    /\ fileCtxs[a].tableName = fileCtxs[b].tableName
    /\ fileCtxs[a].sys_id = fileCtxs[b].sys_id
    /\ fileCtxs[a].targetField = fileCtxs[b].targetField
    /\ fileCtxs[a] # fileCtxs[b]

\* C16 as stated: for every sequence of contexts and every reordering of it,
\* groupAppFiles returns the same tree.
C16_PermutationInvariant ==
  (grouped # <<>> /\ regrouped # <<>>) => grouped = regrouped

\* C16, amended: groupAppFiles returns the same tree for every reordering of
\* a sequence in which no two different contexts name the same field of the
\* same record of the same table.
C16_PermutationInvariantIfNoClash ==
  (grouped # <<>> /\ regrouped # <<>> /\ ~Clash) => grouped = regrouped

\* C16 witness: two contexts of the same table, without a clash, were grouped
\* in both orders.
C16_Witness ==
  /\ grouped # <<>> /\ regrouped # <<>>
  /\ ~Clash
  /\ Len(fileCtxs) >= 2
  /\ reordered # fileCtxs
  /\ fileCtxs[1].tableName = fileCtxs[2].tableName

\* =========================================================================
\* Part 8.  checkScope / swapScope / swapServerScope
\* =========================================================================

\* The scopes of the remote instance.
Scopes == {"global", "x_app"}

\* The sys_id client.getScopeId answers for a scope name.
ScopeIdOf(scope) == "id of " \o scope

\* The sys_id client.getUserSysId answers.
UserSysId == "user1"

\* client.getCurrentAppUserPrefSysId through processSimpleResponse(.., "sys_id")
\* and || "": the sys_id of the user's preference record, "" without one.
CurrentPrefSysId(prefs) ==
  IF prefs = {} THEN "" ELSE (CHOOSE p \in prefs : TRUE).id

\* Remote effect of updateCurrentAppUserPref(scopeId, prefId).
UpdatePref(prefs, id, prefId) ==
  { IF p.id = prefId THEN [ p EXCEPT !.value = id ] ELSE p : p \in prefs }

\* Remote effect of createCurrentAppUserPref(scopeId, userSysId).
CreatePref(prefs, id) ==
  prefs \cup { [ id |-> "pref" \o ToString(Cardinality(prefs) + 1), value |-> id ] }

ScopeCheckResult(m, session, man) ==
  [ match |-> m, sessionScope |-> session, manifestScope |-> man ]

\* Variant: the scope is swapped whatever the swap argument says.
SwapAlways(sw) == TRUE

\* else if (swap)
SwapWanted(sw) == sw

\* Variant: the preference record is taken not to exist.
PrefNeverExists(prefId) == FALSE

\* if (curAppUserPrefId !== "")
PrefExists(prefId) == prefId # ""

Call(op, a, b) == [ op |-> op, first |-> a, second |-> b ]

InitScope ==
  /\ manScope \in { <<>> } \cup { << sc >> : sc \in Scopes }
  /\ swap \in BOOLEAN
  /\ sessionScope \in Scopes
  /\ scopePref \in { {} } \cup { { [ id |-> "pref1", value |-> ScopeIdOf(sc) ] } :
                                 sc \in Scopes }
  /\ pcS = "idle"
  /\ scopeRead = "" /\ scopeId = "" /\ prefRead = "" /\ swappedScope = ""
  /\ scopeCalls = <<>>
  /\ scopeCheck = <<>>
  /\ PushIdle /\ ManIdle /\ MissIdle /\ BuildIdle /\ GroupIdle /\ UpdateSetIdle

\* checkScope up to its first await: without a manifest it returns at once,
\* otherwise it asks the remote for the current scope.
CheckScopeStart ==
  /\ pcS = "idle"
  /\ IF manScope = <<>>
     THEN /\ scopeCheck' = << ScopeCheckResult(TRUE, "", "") >>
          /\ pcS' = "done"
          /\ UNCHANGED scopeCalls
     ELSE /\ scopeCalls' = Append(scopeCalls, Call("getCurrentScope", "", ""))
          /\ pcS' = "getCurrentScope"
          /\ UNCHANGED scopeCheck
  /\ UNCHANGED << manScope, swap, sessionScope, scopePref, scopeRead, scopeId,
                  prefRead, swappedScope >>
  /\ UNCHANGED OutsideScope

\* client.getCurrentScope resolves: equal scopes and unequal scopes without
\* swap return; otherwise swapScope starts and asks for the id of the scope.
CurrentScopeRead ==
  /\ pcS = "getCurrentScope"
  /\ scopeRead' = sessionScope
  /\ IF scopeRead' = manScope[1]
     THEN /\ scopeCheck' = << ScopeCheckResult(TRUE, scopeRead', manScope[1]) >>
          /\ pcS' = "done"
          /\ UNCHANGED scopeCalls
     ELSE IF SwapWanted(swap)
     THEN /\ scopeCalls' = Append(scopeCalls, Call("getScopeId", manScope[1], ""))
          /\ pcS' = "getScopeId"
          /\ UNCHANGED scopeCheck
     ELSE /\ scopeCheck' = << ScopeCheckResult(FALSE, scopeRead', manScope[1]) >>
          /\ pcS' = "done"
          /\ UNCHANGED scopeCalls
  /\ UNCHANGED << manScope, swap, sessionScope, scopePref, scopeId, prefRead,
                  swappedScope >>
  /\ UNCHANGED OutsideScope

\* client.getScopeId resolves: swapServerScope starts and asks for the user.
ScopeIdRead ==
  /\ pcS = "getScopeId"
  /\ scopeId' = ScopeIdOf(manScope[1])
  /\ scopeCalls' = Append(scopeCalls, Call("getUserSysId", "", ""))
  /\ pcS' = "getUserSysId"
  /\ UNCHANGED << manScope, swap, sessionScope, scopePref, scopeRead, prefRead,
                  swappedScope, scopeCheck >>
  /\ UNCHANGED OutsideScope

\* client.getUserSysId resolves: the user's preference record is asked for.
UserSysIdRead ==
  /\ pcS = "getUserSysId"
  /\ scopeCalls' = Append(scopeCalls,
                          Call("getCurrentAppUserPrefSysId", UserSysId, ""))
  /\ pcS' = "getCurrentAppUserPrefSysId"
  /\ UNCHANGED << manScope, swap, sessionScope, scopePref, scopeRead, scopeId,
                  prefRead, swappedScope, scopeCheck >>
  /\ UNCHANGED OutsideScope

\* client.getCurrentAppUserPrefSysId resolves: the record is updated if there
\* is one, created otherwise.
PrefSysIdRead ==
  /\ pcS = "getCurrentAppUserPrefSysId"
  /\ prefRead' = CurrentPrefSysId(scopePref)
  /\ IF PrefExists(prefRead')
     THEN /\ scopeCalls' = Append(scopeCalls,
                 Call("updateCurrentAppUserPref", scopeId, prefRead'))
          /\ pcS' = "updateCurrentAppUserPref"
     ELSE /\ scopeCalls' = Append(scopeCalls,
                 Call("createCurrentAppUserPref", scopeId, UserSysId))
          /\ pcS' = "createCurrentAppUserPref"
  /\ UNCHANGED << manScope, swap, sessionScope, scopePref, scopeRead, scopeId,
                  swappedScope, scopeCheck >>
  /\ UNCHANGED OutsideScope

\* The update or create call resolves: the remote has changed the preference,
\* and has or has not moved the session into the scope; swapScope asks for the
\* current scope again.
PrefChanged ==
  /\ pcS \in {"updateCurrentAppUserPref", "createCurrentAppUserPref"}
  /\ scopePref' = IF pcS = "updateCurrentAppUserPref"
                  THEN UpdatePref(scopePref, scopeId, prefRead)
                  ELSE CreatePref(scopePref, scopeId)
  /\ sessionScope' \in { sessionScope } \cup { sc \in Scopes : ScopeIdOf(sc) = scopeId }
  /\ scopeCalls' = Append(scopeCalls, Call("getCurrentScope", "", ""))
  /\ pcS' = "getCurrentScope again"
  /\ UNCHANGED << manScope, swap, scopeRead, scopeId, prefRead, swappedScope,
                  scopeCheck >>
  /\ UNCHANGED OutsideScope

\* The second client.getCurrentScope resolves: checkScope returns.
SwappedScopeRead ==
  /\ pcS = "getCurrentScope again"
  /\ swappedScope' = sessionScope
  /\ scopeCheck' = << ScopeCheckResult(swappedScope' = manScope[1], swappedScope',
                                       manScope[1]) >>
  /\ pcS' = "done"
  /\ UNCHANGED << manScope, swap, sessionScope, scopePref, scopeRead, scopeId,
                  prefRead, scopeCalls >>
  /\ UNCHANGED OutsideScope

\* The remote call under way fails: the error is rethrown up to the caller.
ScopeCallFailed ==
  /\ pcS \notin {"off", "idle", "done", "failed"}
  /\ pcS' = "failed"
  /\ UNCHANGED << manScope, swap, sessionScope, scopePref, scopeRead, scopeId,
                  prefRead, swappedScope, scopeCalls, scopeCheck >>
  /\ UNCHANGED OutsideScope

ScopeNext ==
  \/ CheckScopeStart
  \/ CurrentScopeRead
  \/ ScopeIdRead
  \/ UserSysIdRead
  \/ PrefSysIdRead
  \/ PrefChanged
  \/ SwappedScopeRead
  \/ ScopeCallFailed

SpecScope == InitScope /\ [][ScopeNext]_vars

\* ---- properties of checkScope

\* The calls issued so far that change the user's scope preference.
ScopeMutations ==
  SelectSeq(scopeCalls,
            LAMBDA c : c.op \in {"updateCurrentAppUserPref", "createCurrentAppUserPref"})

\* Without a manifest nothing is asked of the remote and the result is a match
\* with empty scopes; a result without mutation reports the remote scope as
\* it is, and is a mismatch only when no swap was asked for.
C12_StateInv ==
  /\ manScope = <<>> =>
       /\ scopeCalls = <<>>
       /\ pcS = "done" => scopeCheck = << ScopeCheckResult(TRUE, "", "") >>
  /\ (manScope # <<>> /\ pcS = "done" /\ scopeRead = manScope[1]) =>
       /\ ScopeMutations = <<>>
       /\ scopeCheck = << ScopeCheckResult(TRUE, sessionScope, manScope[1]) >>
  /\ (manScope # <<>> /\ pcS = "done" /\ scopeRead # manScope[1] /\ ~swap) =>
       /\ ScopeMutations = <<>>
       /\ scopeCheck = << ScopeCheckResult(FALSE, sessionScope, manScope[1]) >>

\* A mutation is issued only with a manifest, a swap asked for and a remote
\* scope read that differs from the manifest's; the remote state changes only
\* after a mutation was issued.
C12_Step ==
  /\ Len(scopeCalls') > Len(scopeCalls)
       /\ scopeCalls'[Len(scopeCalls')].op
            \in {"updateCurrentAppUserPref", "createCurrentAppUserPref"}
     => (manScope # <<>> /\ swap /\ scopeRead # "" /\ scopeRead # manScope[1])
  /\ (scopePref' # scopePref \/ sessionScope' # sessionScope)
     => (manScope # <<>> /\ swap /\ scopeRead # manScope[1] /\ ScopeMutations # <<>>)

\* C12: checkScope issues no update and no create of the user's scope
\* preference, and leaves the remote as it is, when there is no manifest (the
\* result is then match with empty scopes and no remote call is made), when
\* the remote scope equals the manifest scope (match), and when they differ
\* and swap is false (no match, sessionScope the remote scope, manifestScope
\* the manifest scope).
C12_NoMutationWithoutSwap == []C12_StateInv /\ [][C12_Step]_vars

\* C12 witness: checkScope returned a mismatch without swapping.
C12_Witness ==
  /\ pcS = "done" /\ manScope # <<>> /\ ~swap
  /\ scopeCheck = << ScopeCheckResult(FALSE, sessionScope, manScope[1]) >>
  /\ sessionScope # manScope[1]

\* C13: when the scopes differ and swap is true, checkScope issues exactly one
\* mutation of the user's scope preference, an update of the user's record if
\* there is one and a create otherwise, with the id of the manifest scope, so
\* that the user ends with one record pointing at that scope; the result is a
\* match exactly when the scope read afterwards is the manifest scope, and
\* sessionScope is that scope read afterwards.
C13_SwapMutatesOnce ==
  /\ Len(ScopeMutations) <= 1
  /\ (pcS = "done" /\ manScope # <<>> /\ swap /\ scopeRead # manScope[1]) =>
       /\ Len(ScopeMutations) = 1
       /\ ScopeMutations[1].first = ScopeIdOf(manScope[1])
       /\ scopePref \in
            { { [ id |-> "pref1", value |-> ScopeIdOf(manScope[1]) ] } }
       /\ ScopeMutations[1].op = "updateCurrentAppUserPref"
            => ScopeMutations[1].second = "pref1"
       /\ ScopeMutations[1].op = "createCurrentAppUserPref"
            => ScopeMutations[1].second = UserSysId
       /\ scopeCalls[Len(scopeCalls)].op = "getCurrentScope"
       /\ swappedScope = sessionScope
       /\ scopeCheck = << ScopeCheckResult(sessionScope = manScope[1], sessionScope,
                                           manScope[1]) >>

\* C13 witness: checkScope returned after it updated an existing preference
\* record, and the session is still in another scope than the manifest's.
C13_Witness ==
  /\ pcS = "done" /\ manScope # <<>> /\ swap /\ scopeRead # manScope[1]
  /\ Len(ScopeMutations) = 1
  /\ ScopeMutations[1].op = "updateCurrentAppUserPref"
  /\ scopeCheck # <<>> /\ scopeCheck[1].match = FALSE

\* =========================================================================
\* Part 9.  createAndAssignUpdateSet
\* =========================================================================

\* Largest number of createAndAssignUpdateSet calls made one after another.
MaxUpdateSetCalls == 2

\* The names it is called with; "" is the blank name (the default).
UpdateSetNames == {"", "Fix A", "Fix B"}

\* client.getCurrentUpdateSetUserPref through processSimpleResponse(.., "sys_id"):
\* the sys_id of the user's preference record, "" without one.
CurrentUpdateSetPrefSysId(prefs) ==
  IF prefs = {} THEN "" ELSE (CHOOSE p \in prefs : TRUE).id

\* if (curUpdateSetUserPrefId !== "")
UpdateSetPrefExists(prefId) == prefId # ""

InitUpdateSet ==
  /\ namesLeft \in UNION { [ 1..n -> UpdateSetNames ] : n \in 1..MaxUpdateSetCalls }
  /\ updateSetName = ""
  /\ updateSets = <<>>
  /\ updateSetPref \in { {}, { [ id |-> "pref1", value |-> "set0" ] } }
  /\ pcU = "idle"
  /\ newSetId = "" /\ usPrefRead = ""
  /\ usCalls = <<>>
  /\ usResult = <<>>
  /\ PushIdle /\ ManIdle /\ MissIdle /\ BuildIdle /\ GroupIdle /\ ScopeIdle

\* createAndAssignUpdateSet(name) up to its first await: createUpdateSet is
\* called with the name as it is.
CreateAndAssignStart ==
  /\ pcU \in {"idle", "done"}
  /\ namesLeft # <<>>
  /\ updateSetName' = Head(namesLeft)
  /\ namesLeft' = Tail(namesLeft)
  /\ usCalls' = << Call("createUpdateSet", updateSetName', "") >>
  /\ usResult' = <<>>
  /\ newSetId' = "" /\ usPrefRead' = ""
  /\ pcU' = "createUpdateSet"
  /\ UNCHANGED << updateSets, updateSetPref >>
  /\ UNCHANGED OutsideUpdateSet

\* client.createUpdateSet resolves with the sys_id of the new update set.
UpdateSetCreated ==
  /\ pcU = "createUpdateSet"
  /\ updateSets' = Append(updateSets, updateSetName)
  /\ newSetId' = "set" \o ToString(Len(updateSets'))
  /\ usCalls' = Append(usCalls, Call("getUserSysId", "", ""))
  /\ pcU' = "getUserSysId"
  /\ UNCHANGED << updateSetName, namesLeft, updateSetPref, usPrefRead, usResult >>
  /\ UNCHANGED OutsideUpdateSet

\* client.getUserSysId resolves: the user's preference record is asked for.
UpdateSetUserRead ==
  /\ pcU = "getUserSysId"
  /\ usCalls' = Append(usCalls, Call("getCurrentUpdateSetUserPref", UserSysId, ""))
  /\ pcU' = "getCurrentUpdateSetUserPref"
  /\ UNCHANGED << updateSetName, namesLeft, updateSets, updateSetPref, newSetId,
                  usPrefRead, usResult >>
  /\ UNCHANGED OutsideUpdateSet

\* client.getCurrentUpdateSetUserPref resolves: the record is updated if there
\* is one, created otherwise.
UpdateSetPrefRead ==
  /\ pcU = "getCurrentUpdateSetUserPref"
  /\ usPrefRead' = CurrentUpdateSetPrefSysId(updateSetPref)
  /\ IF UpdateSetPrefExists(usPrefRead')
     THEN /\ usCalls' = Append(usCalls,
                 Call("updateCurrentUpdateSetUserPref", newSetId, usPrefRead'))
          /\ pcU' = "updateCurrentUpdateSetUserPref"
     ELSE /\ usCalls' = Append(usCalls,
                 Call("createCurrentUpdateSetUserPref", newSetId, UserSysId))
          /\ pcU' = "createCurrentUpdateSetUserPref"
  /\ UNCHANGED << updateSetName, namesLeft, updateSets, updateSetPref, newSetId,
                  usResult >>
  /\ UNCHANGED OutsideUpdateSet

\* The update or create call resolves: createAndAssignUpdateSet returns the
\* name and the id of the update set.
UpdateSetAssigned ==
  /\ pcU \in {"updateCurrentUpdateSetUserPref", "createCurrentUpdateSetUserPref"}
  /\ updateSetPref' = IF pcU = "updateCurrentUpdateSetUserPref"
                      THEN UpdatePref(updateSetPref, newSetId, usPrefRead)
                      ELSE CreatePref(updateSetPref, newSetId)
  /\ usResult' = << [ name |-> updateSetName, id |-> newSetId ] >>
  /\ pcU' = "done"
  /\ UNCHANGED << updateSetName, namesLeft, updateSets, newSetId, usPrefRead,
                  usCalls >>
  /\ UNCHANGED OutsideUpdateSet

\* The remote call under way fails: createAndAssignUpdateSet rejects.
UpdateSetCallFailed ==
  /\ pcU \notin {"off", "idle", "done", "failed"}
  /\ pcU' = "failed"
  /\ UNCHANGED << updateSetName, namesLeft, updateSets, updateSetPref, newSetId,
                  usPrefRead, usCalls, usResult >>
  /\ UNCHANGED OutsideUpdateSet

UpdateSetNext ==
  \/ CreateAndAssignStart
  \/ UpdateSetCreated
  \/ UpdateSetUserRead
  \/ UpdateSetPrefRead
  \/ UpdateSetAssigned
  \/ UpdateSetCallFailed

SpecUpdateSet == InitUpdateSet /\ [][UpdateSetNext]_vars

\* C14: a createAndAssignUpdateSet call with a blank name asks the remote for
\* nothing, neither an update set nor a change of the user's preference, and
\* returns nothing created; a call with another name that has returned has
\* created the update set, has updated the user's preference record if there
\* was one and created it otherwise, and has returned the name and the id of
\* the update set.
C14_BlankNameIsNoOp ==
  /\ (pcU \notin {"off", "idle"} /\ updateSetName = "") =>
       /\ usCalls = <<>>
       /\ usResult = <<>>
       /\ \A k \in 1..Len(updateSets) : updateSets[k] # ""
  /\ (pcU = "done" /\ updateSetName # "") =>
       /\ updateSets # <<>>
       /\ updateSets[Len(updateSets)] = updateSetName
       /\ usResult = << [ name |-> updateSetName,
                          id |-> "set" \o ToString(Len(updateSets)) ] >>
       /\ updateSetPref =
            { [ id |-> "pref1", value |-> "set" \o ToString(Len(updateSets)) ] }
       /\ usCalls[Len(usCalls)].op \in
            {"updateCurrentUpdateSetUserPref", "createCurrentUpdateSetUserPref"}

====
